---- MODULE Spec2Model ----
(***************************************************************************)
(* Model of upload_large_files_rest_api_salesforce.py: the authenticator   *)
(* get_access_token, the two uploaders upload_small_file and               *)
(* upload_large_file, and the script's entry point.  The remote endpoints, *)
(* the network and the local filesystem are the environment: every call    *)
(* draws the outcome of its single requests.post from PostOutcomes.        *)
(***************************************************************************)
EXTENDS Integers, Sequences, FiniteSets, TLC

VARIABLES
    pc,                 \* "imported" (used as a library), "main", "done"
    access_token,       \* the entry point's variable access_token (line 169)
    jsonErrIsReqExc,    \* installed requests: JSONDecodeError subclasses RequestException?
    last,               \* the last invocation: arguments, environment, what it did
    repeated,           \* the last invocation re-sent the request of the upload
                        \* before it, which had returned normally
    server              \* the content endpoint: records created, dedup keys seen

vars == <<pc, access_token, jsonErrIsReqExc, last, repeated, server>>

\* ---------------------------------------------------------------- bounds
MaxRecords == 2

\* ---------------------------------------------------------------- values
None == "None"

EmptyFields == [k \in {} |-> ""]

NoBody == [kind |-> "none", fields |-> EmptyFields]

TokenValues == {"X", "Y"}

DescriptionValues == {"bad creds"}

\* JSON objects the endpoints may answer with: access_token and
\* error_description each present or absent
JsonObjects ==
    { [k \in ((IF t = None THEN {} ELSE {"access_token"}) \cup
              (IF d = None THEN {} ELSE {"error_description"})) |->
          IF k = "access_token" THEN t ELSE d] :
      t \in TokenValues \cup {None}, d \in DescriptionValues \cup {None} }

\* bodies of the token endpoint: a JSON object, the JSON array [], or text
\* that is not JSON
TokenBodies ==
    { [kind |-> "object", fields |-> f] : f \in JsonObjects } \cup
    { [kind |-> "array", fields |-> EmptyFields],
      [kind |-> "text", fields |-> EmptyFields] }

\* bodies of the content endpoint
UploadBodies ==
    { [kind |-> "object", fields |-> [k \in {"id"} |-> "068"]],
      [kind |-> "array", fields |-> EmptyFields],
      [kind |-> "text", fields |-> EmptyFields] }

Statuses == {200, 201, 204, 304, 400, 500}

TransportFaults == {"ConnectionError", "Timeout"}

\* what one requests.post call can come back with
PostOutcomes(bodies) ==
    { [kind |-> "response", status |-> s, body |-> b, type |-> None, text |-> ""] :
      s \in Statuses, b \in bodies } \cup
    { [kind |-> "fault", status |-> 0, body |-> NoBody, type |-> t, text |-> "connection failed"] :
      t \in TransportFaults }

\* file paths, as sequences of characters
Paths == { <<"a", ".", "t">>, <<"a", ".", "b", ".", "t">>, <<"d", ".", "e", "/", "a">> }

FileNames == {None, "Test File"}

NoFile == [exists |-> FALSE, bytes |-> <<>>]

Files == { NoFile, [exists |-> TRUE, bytes |-> <<1, 2>>], [exists |-> TRUE, bytes |-> <<2>>] }

\* ---------------------------------------------------------------- exceptions
NoExc == [type |-> None, msg |-> <<>>, body |-> NoBody, cause |-> None]

Exc(type, msg, body, cause) == [type |-> type, msg |-> msg, body |-> body, cause |-> cause]

Return(v, inspected) == [kind |-> "return", value |-> v, exc |-> NoExc, inspected |-> inspected]

Raise(e, inspected) == [kind |-> "raise", value |-> None, exc |-> e, inspected |-> inspected]

IsRequestException_CatchAll(type) == TRUE

\* except requests.exceptions.RequestException
IsRequestException(type) ==
    \/ type \in TransportFaults
    \/ type = "HTTPError"
    \/ type = "JSONDecodeError" /\ jsonErrIsReqExc

raise_for_status_5xx(status) == status >= 500 /\ status < 600

\* response.raise_for_status(): TRUE when it raises HTTPError
raise_for_status(status) == status >= 400 /\ status < 600

\* response.json(): whether the body parses
JsonParses(body) == body.kind \in {"object", "array"}

JSONDecodeError == Exc("JSONDecodeError", <<"Expecting value">>, NoBody, None)

\* ---------------------------------------------------------------- requests
NoRequest == [kind |-> "none"]

Bearer(token) == <<"Bearer ", token>>

\* line 39-47 and the post of line 50: the form-encoded token request
TokenRequest ==
    [kind |-> "form", url |-> "/services/oauth2/token", grant_type |-> "password"]

SmallFileRequest_DedupKey(token, url, file_path, file_name, data) ==
    [kind |-> "json", url |-> url,
     headers |-> [ContentType |-> "application/json", Authorization |-> Bearer(token),
                  Accept |-> "application/json"],
     body |-> [Title |-> file_name, VersionData |-> data, PathOnClient |-> file_path],
     timeout |-> 600, dedupKey |-> file_name]

\* lines 87-100: headers, JSON body and timeout of the small-file POST
SmallFileRequest(token, url, file_path, file_name, data) ==
    [kind |-> "json", url |-> url,
     headers |-> [ContentType |-> "application/json", Authorization |-> Bearer(token),
                  Accept |-> "application/json"],
     body |-> [Title |-> file_name, VersionData |-> data, PathOnClient |-> file_path],
     timeout |-> 600, dedupKey |-> None]

\* str.split(sep): the pieces of s between occurrences of the character sep
RECURSIVE split(_, _)
split(s, sep) ==
    IF \E i \in 1..Len(s) : s[i] = sep
    THEN LET i == CHOOSE i \in 1..Len(s) : s[i] = sep /\ \A j \in 1..(i - 1) : s[j] # sep
         IN  <<SubSeq(s, 1, i - 1)>> \o split(SubSeq(s, i + 1, Len(s)), sep)
    ELSE <<s>>

\* line 135: the Title of the metadata part
Title(file_path, file_name) ==
    IF file_name = None THEN split(file_path, ".")[1] ELSE <<file_name>>

\* lines 134-154: the two parts and the headers of the multipart POST
LargeFileRequest(token, url, file_path, file_name, description, file) ==
    [kind |-> "multipart", url |-> url,
     headers |-> [Authorization |-> Bearer(token), Accept |-> "*/*"],
     parts |-> << [name |-> "entity_content", filename |-> None,
                   contentType |-> "application/json",
                   json |-> [Title |-> Title(file_path, file_name),
                             Description |-> description,
                             PathOnClient |-> file_path]],
                  [name |-> "VersionData", filename |-> file_path,
                   contentType |-> "application/json;charset=UTF-8",
                   content |-> file.bytes] >>,
     dedupKey |-> None]

\* ---------------------------------------------------------------- get_access_token
\* what a function did: its result, the posts it issued, the request it
\* sent, and whether it opened a file handle
Did(result, posts, request, opened) ==
    [result |-> result, posts |-> posts, request |-> request, opened |-> opened]

TokenErrorPrefix == "Failed to obtain access token: "

UnknownError == "Unknown error occurred"

get_access_token_try_ErrorFirst(o) ==
    IF o.kind = "fault"
    THEN Raise(Exc(o.type, <<o.text>>, NoBody, None), FALSE)
    ELSE IF raise_for_status(o.status)
    THEN Raise(Exc("HTTPError", <<"status error">>, NoBody, None), FALSE)
    ELSE IF ~JsonParses(o.body)
    THEN Raise(JSONDecodeError, FALSE)
    ELSE IF o.body.kind = "array"
    THEN Raise(Exc("AttributeError", <<"no attribute get">>, NoBody, None), TRUE)
    ELSE IF "error_description" \in DOMAIN o.body.fields \/ "access_token" \notin DOMAIN o.body.fields
    THEN Raise(Exc("Exception",
                   <<TokenErrorPrefix,
                     IF "error_description" \in DOMAIN o.body.fields
                     THEN o.body.fields["error_description"] ELSE UnknownError>>,
                   NoBody, None), TRUE)
    ELSE Return(o.body.fields["access_token"], TRUE)

\* lines 50-60: the body of the try block
get_access_token_try(o) ==
    IF o.kind = "fault"
    THEN Raise(Exc(o.type, <<o.text>>, NoBody, None), FALSE)
    ELSE IF raise_for_status(o.status)
    THEN Raise(Exc("HTTPError", <<"status error">>, NoBody, None), FALSE)
    ELSE IF ~JsonParses(o.body)
    THEN Raise(JSONDecodeError, FALSE)
    ELSE IF o.body.kind = "object" /\ "access_token" \in DOMAIN o.body.fields
    THEN Return(o.body.fields["access_token"], TRUE)
    ELSE IF o.body.kind = "array"
    THEN Raise(Exc("AttributeError", <<"no attribute get">>, NoBody, None), TRUE)
    ELSE Raise(Exc("Exception",
                   <<TokenErrorPrefix,
                     IF "error_description" \in DOMAIN o.body.fields
                     THEN o.body.fields["error_description"] ELSE UnknownError>>,
                   NoBody, None), TRUE)

get_access_token_Swallow(o) ==
    LET r == get_access_token_try(o)
    IN  Did(IF r.kind = "raise" /\ IsRequestException(r.exc.type)
            THEN Return(None, r.inspected)
            ELSE r,
            1, TokenRequest, FALSE)

\* lines 39-63: the try block and its RequestException handler
get_access_token(o) ==
    LET r == get_access_token_try(o)
    IN  Did(IF r.kind = "raise" /\ IsRequestException(r.exc.type)
            THEN Raise(Exc("Exception", <<TokenErrorPrefix>> \o r.exc.msg, NoBody, r.exc.type),
                       r.inspected)
            ELSE r,
            1, TokenRequest, FALSE)

\* ---------------------------------------------------------------- uploaders
\* lines 100-106 and 154-160: the body of the uploaders' try block
upload_try(o) ==
    IF o.kind = "fault"
    THEN Raise(Exc(o.type, <<o.text>>, NoBody, None), FALSE)
    ELSE IF ~JsonParses(o.body)
    THEN Raise(JSONDecodeError, FALSE)
    ELSE IF o.status \in {200, 201}
    THEN Return(None, FALSE)
    ELSE Raise(Exc("Exception", <<>>, o.body, None), FALSE)

\* lines 99-109 and 153-163: the try block and its RequestException handler
upload_post(o) ==
    LET r == upload_try(o)
    IN  IF r.kind = "raise" /\ IsRequestException(r.exc.type)
        THEN Raise(Exc("Exception", r.exc.msg, NoBody, r.exc.type), FALSE)
        ELSE r

upload_small_file_Retry(token, url, file_path, file_name, data, o) ==
    Did(upload_post(o), IF o.kind = "fault" THEN 2 ELSE 1,
        SmallFileRequest(token, url, file_path, file_name, data), FALSE)

\* lines 66-109
upload_small_file(token, url, file_path, file_name, data, o) ==
    Did(upload_post(o), 1, SmallFileRequest(token, url, file_path, file_name, data), FALSE)

\* lines 112-163: os.stat raises before anything is sent when the file is
\* missing; otherwise the file is opened (line 142) and posted
upload_large_file(token, url, file_path, file_name, description, file, o) ==
    IF ~file.exists
    THEN Did(Raise(Exc("FileNotFoundError", <<"No such file or directory">>, NoBody, None), FALSE),
             0, NoRequest, FALSE)
    ELSE Did(upload_post(o), 1,
             LargeFileRequest(token, url, file_path, file_name, description, file), TRUE)

\* line 142: open(file_path, "rb") has no matching close and no with-block.
\* When the call raises, the traceback keeps the frame and its files dict
\* alive; when it returns, the handle is closed only if the runtime
\* reclaims the unreferenced file object at once (reclaimed).
HandleOpenAfter(did, reclaimed) ==
    did.opened /\ (did.result.kind = "raise" \/ ~reclaimed)

\* ---------------------------------------------------------------- environment
\* The content endpoint: a request answered 200 or 201 was accepted and has
\* created a content record, unless it carries a deduplication key the
\* endpoint has already seen.
ContentEndpoint(srv, request, o) ==
    IF request.kind \in {"json", "multipart"} /\ o.kind = "response" /\ o.status \in {200, 201}
    THEN IF request.dedupKey # None /\ request.dedupKey \in srv.keys
         THEN srv
         ELSE [count |-> srv.count + 1,
               keys |-> srv.keys \cup (IF request.dedupKey = None THEN {} ELSE {request.dedupKey})]
    ELSE srv

URL == "/sobjects/ContentVersion"

Uploaders == {"upload_small_file", "upload_large_file"}

NoArgs ==
    [access_token |-> None, url |-> None, file_path |-> <<>>, file_name |-> None,
     data |-> None, description |-> None]

Invocation(op, args, file, o, did, reclaimed) ==
    [op |-> op, args |-> args, file |-> file, outcome |-> o,
     result |-> did.result, posts |-> did.posts, request |-> did.request,
     handleOpen |-> HandleOpenAfter(did, reclaimed)]

NoOutcome == [kind |-> "none", status |-> 0, body |-> NoBody, type |-> None, text |-> ""]

NoInvocation ==
    [op |-> None, args |-> NoArgs, file |-> NoFile, outcome |-> NoOutcome,
     result |-> Return(None, FALSE), posts |-> 0, request |-> NoRequest,
     handleOpen |-> FALSE]

\* the outcome a call observes: none when it sends nothing
Observed(did, o) == IF did.posts = 0 THEN NoOutcome ELSE o

\* did re-sends the request of the last invocation, an upload that returned
Repeats(did) ==
    /\ last.op \in Uploaders
    /\ last.result.kind = "return"
    /\ did.posts > 0
    /\ did.request = last.request

\* ---------------------------------------------------------------- actions
\* a caller that imported the module calls get_access_token
CallGetAccessToken ==
    /\ pc = "imported"
    /\ \E o \in PostOutcomes(TokenBodies) :
         LET did == get_access_token(o)
         IN  last' = Invocation("get_access_token", NoArgs, NoFile, Observed(did, o), did, TRUE)
    /\ repeated' = FALSE
    /\ UNCHANGED <<pc, access_token, jsonErrIsReqExc, server>>

\* a caller that imported the module calls upload_small_file
CallUploadSmallFile ==
    /\ pc = "imported"
    /\ server.count < MaxRecords
    /\ \E token \in {"X"}, file_path \in Paths, o \in PostOutcomes(UploadBodies) :
         LET args == [access_token |-> token, url |-> URL, file_path |-> file_path,
                      file_name |-> "Test File", data |-> "This is my data.",
                      description |-> None]
             did == upload_small_file(token, URL, file_path, args.file_name, args.data, o)
         IN  /\ last' = Invocation("upload_small_file", args, NoFile, Observed(did, o), did, TRUE)
             /\ server' = ContentEndpoint(server, did.request, Observed(did, o))
             /\ repeated' = Repeats(did)
    /\ UNCHANGED <<pc, access_token, jsonErrIsReqExc>>

\* a caller that imported the module calls upload_large_file
CallUploadLargeFile ==
    /\ pc = "imported"
    /\ server.count < MaxRecords
    /\ \E token \in {"X"}, file_path \in Paths, file_name \in FileNames, file \in Files :
        \E o \in (IF file.exists THEN PostOutcomes(UploadBodies) ELSE {NoOutcome}) :
        \E reclaimed \in (IF file.exists /\ upload_post(o).kind = "return" THEN BOOLEAN ELSE {FALSE}) :
         LET args == [access_token |-> token, url |-> URL, file_path |-> file_path,
                      file_name |-> file_name, data |-> None,
                      description |-> "This is a test file."]
             did == upload_large_file(token, URL, file_path, file_name, args.description, file, o)
         IN  /\ last' = Invocation("upload_large_file", args, file, Observed(did, o), did, reclaimed)
             /\ server' = ContentEndpoint(server, did.request, Observed(did, o))
             /\ repeated' = Repeats(did)
    /\ UNCHANGED <<pc, access_token, jsonErrIsReqExc>>

\* lines 166-176: the entry point obtains the token; an exception ends the script
MainGetAccessToken ==
    /\ pc = "main"
    /\ \E o \in PostOutcomes(TokenBodies) :
         LET did == get_access_token(o)
         IN  /\ last' = Invocation("get_access_token", NoArgs, NoFile, Observed(did, o), did, TRUE)
             /\ access_token' = IF did.result.kind = "return" THEN did.result.value ELSE access_token
             /\ pc' = IF did.result.kind = "return" THEN "authenticated" ELSE "done"
    /\ repeated' = FALSE
    /\ UNCHANGED <<jsonErrIsReqExc, server>>

\* lines 178-197: only comments follow (both uploader calls are commented
\* out), so the script ends
MainExit ==
    /\ pc = "authenticated"
    /\ pc' = "done"
    /\ UNCHANGED <<access_token, jsonErrIsReqExc, last, repeated, server>>

InitCommon ==
    /\ access_token = None
    /\ jsonErrIsReqExc \in BOOLEAN
    /\ last = NoInvocation
    /\ repeated = FALSE
    /\ server = [count |-> 0, keys |-> {}]

\* the module imported by a caller: the __main__ block does not run
Init == pc = "imported" /\ InitCommon

Next == CallGetAccessToken \/ CallUploadSmallFile \/ CallUploadLargeFile

Spec == Init /\ [][Next]_vars

\* the module run as a script
InitMain == pc = "main" /\ InitCommon

NextMain == MainGetAccessToken \/ MainExit

SpecMain == InitMain /\ [][NextMain]_vars

\* ---------------------------------------------------------------- properties
IsResponse(op) == last.op = op /\ last.outcome.kind = "response"

Success2xx(status) == status >= 200 /\ status < 300

HasAccessToken(body) == body.kind = "object" /\ "access_token" \in DOMAIN body.fields

Contains(msg, text) == \E i \in 1..Len(msg) : msg[i] = text

\* the error_description of a JSON object body, or the generic fallback
ExpectedDescription(body) ==
    IF "error_description" \in DOMAIN body.fields
    THEN body.fields["error_description"] ELSE UnknownError

LastIndexOf(s, c) ==
    IF \E i \in 1..Len(s) : s[i] = c
    THEN CHOOSE i \in 1..Len(s) : s[i] = c /\ \A j \in (i + 1)..Len(s) : s[j] # c
    ELSE 0

\* a path with its extension stripped: the last dot of the last path
\* component starts the extension, unless only dots precede it there
ExtensionStripped(path) ==
    LET sepIndex == LastIndexOf(path, "/")
        dotIndex == LastIndexOf(path, ".")
    IN  IF dotIndex > sepIndex /\ \E i \in (sepIndex + 1)..(dotIndex - 1) : path[i] # "."
        THEN SubSeq(path, 1, dotIndex - 1)
        ELSE path

\* C1: an uploader whose POST completes with status 200 or 201 returns
\* normally whatever the body is, and with any other status raises an error
\* carrying the response body.
C1_StatusDecidesUpload ==
    (last.op \in Uploaders /\ last.outcome.kind = "response") =>
        IF last.outcome.status \in {200, 201}
        THEN last.result.kind = "return"
        ELSE last.result.kind = "raise" /\ last.result.exc.body = last.outcome.body

\* C2: a token response with a success status whose JSON body has an
\* access_token field makes get_access_token return exactly that value.
C2_ReturnsAccessToken ==
    (IsResponse("get_access_token") /\ Success2xx(last.outcome.status)
        /\ HasAccessToken(last.outcome.body)) =>
        /\ last.result.kind = "return"
        /\ last.result.value = last.outcome.body.fields["access_token"]

C2_Witness ==
    /\ IsResponse("get_access_token")
    /\ last.outcome.status = 200
    /\ HasAccessToken(last.outcome.body)
    /\ "error_description" \in DOMAIN last.outcome.body.fields
    /\ last.result.kind = "return"
    /\ last.result.value = "Y"

\* C3 as stated: every 2xx token response whose body has no access_token
\* field raises an error whose message contains the error_description or the
\* fallback, and which did not pass through the RequestException handler.
C3_Original ==
    (IsResponse("get_access_token") /\ Success2xx(last.outcome.status)
        /\ ~HasAccessToken(last.outcome.body)) =>
        /\ last.result.kind = "raise"
        /\ last.result.exc.cause = None
        /\ Contains(last.result.exc.msg,
                    IF last.outcome.body.kind = "object"
                    THEN ExpectedDescription(last.outcome.body) ELSE UnknownError)

\* C3 amended: every 2xx token response whose body has no access_token field
\* raises and returns no value; when that body is a JSON object, the error is
\* the one of line 60, with the error_description or the fallback in its
\* message, and it did not pass through the RequestException handler.
C3_MissingTokenRaises ==
    (IsResponse("get_access_token") /\ Success2xx(last.outcome.status)
        /\ ~HasAccessToken(last.outcome.body)) =>
        /\ last.result.kind = "raise"
        /\ last.result.value = None
        /\ last.outcome.body.kind = "object" =>
              /\ last.result.exc.type = "Exception"
              /\ last.result.exc.cause = None
              /\ last.result.exc.msg = <<TokenErrorPrefix, ExpectedDescription(last.outcome.body)>>

C3_Witness ==
    /\ IsResponse("get_access_token")
    /\ last.outcome.status = 200
    /\ last.outcome.body.kind = "object"
    /\ DOMAIN last.outcome.body.fields = {"error_description"}
    /\ last.result.kind = "raise"
    /\ Contains(last.result.exc.msg, "bad creds")

\* C4 as stated: every token response with a non-2xx status raises before
\* the access_token field is inspected.
C4_Original ==
    (IsResponse("get_access_token") /\ ~Success2xx(last.outcome.status)) =>
        /\ last.result.kind = "raise"
        /\ ~last.result.inspected

\* C4 amended: every token response with a 4xx or 5xx status raises the
\* HTTP client's status error before the access_token field is inspected,
\* so it yields no token even when its body has one.
C4_ErrorStatusShortCircuits ==
    (IsResponse("get_access_token")
        /\ last.outcome.status >= 400 /\ last.outcome.status < 600) =>
        /\ last.result.kind = "raise"
        /\ last.result.exc.cause = "HTTPError"
        /\ ~last.result.inspected

C4_Witness ==
    /\ IsResponse("get_access_token")
    /\ last.outcome.status = 400
    /\ HasAccessToken(last.outcome.body)
    /\ last.result.kind = "raise"
    /\ ~last.result.inspected

\* C5: a transport-level failure of the token POST makes get_access_token
\* raise a wrapped error with a descriptive message; no token is returned.
C5_TransportFaultRaises ==
    (last.op = "get_access_token" /\ last.outcome.kind = "fault") =>
        /\ last.result.kind = "raise"
        /\ last.result.value = None
        /\ last.result.exc.type = "Exception"
        /\ last.result.exc.cause = last.outcome.type
        /\ last.result.exc.msg = <<TokenErrorPrefix, last.outcome.text>>

C5_Witness ==
    /\ last.op = "get_access_token"
    /\ last.outcome.kind = "fault"
    /\ last.outcome.type = "ConnectionError"
    /\ last.result.kind = "raise"

\* C6: the request of upload_large_file has exactly two parts: metadata
\* whose Title is the supplied file_name or, when file_name is None, the
\* file path with its extension stripped, and VersionData with the exact
\* bytes of the file.
C6_TitleAndBytes ==
    (last.op = "upload_large_file" /\ last.posts = 1) =>
        /\ Len(last.request.parts) = 2
        /\ last.request.parts[1].json.Title =
              (IF last.args.file_name = None
               THEN ExtensionStripped(last.args.file_path)
               ELSE <<last.args.file_name>>)
        /\ last.request.parts[2].content = last.file.bytes

C8_HandleReleased == last.op = "upload_large_file" => ~last.handleOpen

\* C9: uploading is not idempotent: every uploader call that returns
\* normally adds one content record, also when it repeats the previous
\* call's request.
C9_EachUploadAddsRecord ==
    [][(last'.op \in Uploaders /\ last'.result.kind = "return")
          => server'.count = server.count + 1]_vars

C9_Witness ==
    /\ repeated
    /\ last.op \in Uploaders
    /\ last.result.kind = "return"
    /\ last.request.dedupKey = None
    /\ server.count = 2

\* C10: when the script has run and the authenticator returned a token, the
\* token has been passed to exactly one of the two uploaders.
C10_TokenPassedToUploader ==
    (pc = "done" /\ access_token # None) =>
        /\ last.op \in Uploaders
        /\ last.args.access_token = access_token

====
